---- MODULE Spec2Model ----
(***************************************************************************)
(* ClickBus backend (Hono worker): one process-wide identity (POD_GUID,    *)
(* POD_START_TIME), a request counter and an in-memory list of formatted   *)
(* log lines capped at 100, served by seven HTTP handlers.  The frontend   *)
(* page (Home.tsx) is modelled as the client that produces a long run of   *)
(* ingestions.                                                             *)
(*                                                                         *)
(* Strings are sequences of tokens.  A token is either a single special    *)
(* character ("|", the line feed "\n", a decimal digit) or a chunk: a run  *)
(* of ordinary characters that no operation of the program looks into.     *)
(* Template literals are concatenations, join / replace / number           *)
(* formatting are computed token by token.                                 *)
(***************************************************************************)
EXTENDS Integers, Sequences, FiniteSets, TLC

VARIABLES
    POD_GUID,        \* const POD_GUID = crypto.randomUUID()
    POD_START_TIME,  \* const POD_START_TIME = new Date().toISOString()
    podLogs,         \* let podLogs: string[]
    requestCount,    \* let requestCount
    env,             \* the worker bindings c.env, as the host passes them
    now,             \* the wall clock, in milliseconds
    response,        \* the response of the latest request
    arrivals,        \* history: every log line pushed, in arrival order
    validatedPosts,  \* history: number of POST /api/log that passed validation
    podGuidHistory,  \* history: the bodies returned by GET /api/pod-guid
    viewed,          \* history: bodies shown by each text view since the last ingestion
    lastPosted,      \* history: payload of the latest accepted POST /api/log
    fePc,            \* frontend: position of the mount effect (fetchPodGuid)
    podGuid,         \* frontend: useState podGuid
    podInfo,         \* frontend: useState podInfo
    currentFacts     \* frontend: useState currentFacts

serverVars == <<POD_GUID, POD_START_TIME, podLogs, requestCount, env>>
historyVars == <<arrivals, validatedPosts, podGuidHistory, viewed, lastPosted>>
feVars == <<fePc, podGuid, podInfo, currentFacts>>
vars == <<POD_GUID, POD_START_TIME, podLogs, requestCount, env, now, response,
          arrivals, validatedPosts, podGuidHistory, viewed, lastPosted,
          fePc, podGuid, podInfo, currentFacts>>

----------------------------------------------------------------------------
(* Bounds of the exploration *)

\* requests that touch the counter, under the open environment (Spec)
MaxRequests == 3
\* requests that touch the counter, under the page-driven burst (SpecBurst)
MaxBurstRequests == 103
\* clock ticks
MaxTicks == 1
\* requests that touch the counter, when the host may omit the bindings (SpecFault)
MaxFaultRequests == 2

\* the cap of the log list
MaxLogs == 100

----------------------------------------------------------------------------
(* Strings *)

LF == "\n"
PIPE == "|"

DigitChars == <<"0", "1", "2", "3", "4", "5", "6", "7", "8", "9">>

Min(a, b) == IF a < b THEN a ELSE b

RECURSIVE Digits(_)
\* Number -> decimal string, as a template literal renders it
Digits(n) ==
    IF n < 10 THEN <<DigitChars[n + 1]>>
    ELSE Digits(n \div 10) \o <<DigitChars[(n % 10) + 1]>>

DigitValue(c) == CHOOSE d \in 0..9 : DigitChars[d + 1] = c

IsDigit(c) == \E d \in 0..9 : DigitChars[d + 1] = c

RECURSIVE ParseDigits(_)
\* decimal string -> number
ParseDigits(s) ==
    IF Len(s) = 0 THEN 0
    ELSE 10 * ParseDigits(SubSeq(s, 1, Len(s) - 1)) + DigitValue(s[Len(s)])

\* n rendered with at least w digits (String.padStart(w, "0"))
Pad(n, w) ==
    LET d == Digits(n)
    IN  [i \in 1..(IF Len(d) < w THEN w - Len(d) ELSE 0) |-> "0"] \o d

\* Date.prototype.toISOString for an instant of the first minute of the epoch
ToISOString(t) ==
    <<"1970-01-01T00:00:">> \o Pad(t \div 1000, 2) \o <<".">> \o Pad(t % 1000, 3) \o <<"Z">>

\* new Date(iso).getTime()
GetTime(iso) ==
    ParseDigits(SubSeq(iso, 2, 3)) * 1000 + ParseDigits(SubSeq(iso, 5, 7))

RECURSIVE Join(_, _)
\* Array.prototype.join
Join(lines, sep) ==
    IF Len(lines) = 0 THEN <<>>
    ELSE IF Len(lines) = 1 THEN lines[1]
    ELSE lines[1] \o <<sep>> \o Join(Tail(lines), sep)

\* log.replace(/\|/g, ' -')
ReplacePipes(s) == [i \in 1..Len(s) |-> IF s[i] = PIPE THEN " -" ELSE s[i]]

\* SliceLast keeping the head: slice(0, n)
SliceFirst(s, n) ==
    IF Len(s) <= n THEN s ELSE SubSeq(s, 1, n)

\* Array.prototype.slice(-n)
SliceLast(s, n) ==
    IF Len(s) <= n THEN s ELSE SubSeq(s, Len(s) - n + 1, Len(s))

\* x || dflt on strings: the empty (or missing) string is falsy
OrDefault(x, dflt) == IF x = <<>> THEN dflt ELSE x

----------------------------------------------------------------------------
(* Inputs *)

\* values crypto.randomUUID() can return
UUIDs == {"uuid-1", "uuid-2"}

\* the bindings a deployment can give the worker; <<>> is an unset variable
Envs ==
    { [POD_NAME |-> <<>>, POD_NAMESPACE |-> <<>>, POD_IP |-> <<>>],
      [POD_NAME |-> <<"clickbus-backend-0">>, POD_NAMESPACE |-> <<"prod">>,
       POD_IP |-> <<"10.0.0.7">>] }

\* c.env when the host dispatches a request without bindings
\* (app.fetch(request) / app.request(path) with no Env argument): undefined
NoEnv == [undefined |-> TRUE]

\* a JSON member of the request body: a string, a non-string value, or absent
Str(s) == [kind |-> "string", val |-> s]
NonString == [kind |-> "number", val |-> <<>>]
Absent == [kind |-> "absent", val |-> <<>>]

\* the payload of the specification's example, as the page would send it
BasePayload ==
    [action |-> Str(<<"tile_click">>), guid |-> Str(<<"g1">>), details |-> Str(<<"d1">>),
     timestamp |-> Str(<<"t1">>), podName |-> Str(<<"frontend-pod">>)]

\* bodies that satisfy the schema: the example, and one whose action holds
\* a pipe and whose details hold a line feed and end with a digit
ValidPayloads ==
    { BasePayload,
      [BasePayload EXCEPT !.action = Str(<<"x", PIPE, "y">>),
                          !.details = Str(<<"line1", LF, "7">>),
                          !.podName = Absent] }

RequiredFields == {"action", "guid", "details", "timestamp"}

\* BasePayload with one member missing or of the wrong type
InvalidPayloads ==
    { [BasePayload EXCEPT ![f] = bad] : f \in RequiredFields, bad \in {Absent, NonString} }
    \cup { [BasePayload EXCEPT !["podName"] = NonString] }

Payloads == ValidPayloads \cup InvalidPayloads

----------------------------------------------------------------------------
(* The backend *)

IsString(f) == f.kind = "string"

\* LogActionSchema without the check of action
SchemaWithoutAction(p) ==
    /\ IsString(p.guid)
    /\ IsString(p.details)
    /\ IsString(p.timestamp)
    /\ (IsString(p.podName) \/ p.podName = Absent)

\* z.object({action, guid, details, timestamp: z.string(), podName: z.string().optional()})
LogActionSchema(p) ==
    /\ IsString(p.action)
    /\ IsString(p.guid)
    /\ IsString(p.details)
    /\ IsString(p.timestamp)
    /\ (IsString(p.podName) \/ p.podName = Absent)

\* c.env.POD_NAME || 'backend-pod'
PodName == OrDefault(env.POD_NAME, <<"backend-pod">>)

\* FormatLogEntry writing the pod name where the GUID belongs
FormatLogEntryNameAsGuid(serverTimestamp, podName, guid, action, details, reqNo) ==
    serverTimestamp
        \o <<" ", PIPE, " ", "Pod: ">> \o podName
        \o <<" ", PIPE, " ", "GUID: ">> \o podName
        \o <<" ", PIPE, " ", "Action: ">> \o action
        \o <<" ", PIPE, " ", "Details: ">> \o details
        \o <<" ", PIPE, " ", "Req#: ">> \o Digits(reqNo)

\* FormatLogEntry writing the counter as it was before the increment
FormatLogEntryOldCount(serverTimestamp, podName, guid, action, details, reqNo) ==
    serverTimestamp
        \o <<" ", PIPE, " ", "Pod: ">> \o podName
        \o <<" ", PIPE, " ", "GUID: ", guid>>
        \o <<" ", PIPE, " ", "Action: ">> \o action
        \o <<" ", PIPE, " ", "Details: ">> \o details
        \o <<" ", PIPE, " ", "Req#: ">> \o Digits(reqNo - 1)

\* the template literal of the log line
FormatLogEntry(serverTimestamp, podName, guid, action, details, reqNo) ==
    serverTimestamp
        \o <<" ", PIPE, " ", "Pod: ">> \o podName
        \o <<" ", PIPE, " ", "GUID: ", guid>>
        \o <<" ", PIPE, " ", "Action: ">> \o action
        \o <<" ", PIPE, " ", "Details: ">> \o details
        \o <<" ", PIPE, " ", "Req#: ">> \o Digits(reqNo)

\* Increment counting the request twice
IncrementTwice(n) == n + 2

\* requestCount++
Increment(n) == n + 1

\* PushCapped without the truncation
PushUncapped(logs, logEntry) == Append(logs, logEntry)

\* podLogs.push(logEntry); if (podLogs.length > 100) podLogs = podLogs.slice(-100)
PushCapped(logs, logEntry) ==
    LET pushed == Append(logs, logEntry)
    IN  IF Len(pushed) > MaxLogs THEN SliceLast(pushed, MaxLogs) ELSE pushed

\* the body of the success acknowledgment
LogAck(id) ==
    [success |-> TRUE, message |-> "Action logged successfully", logId |-> id]

\* the answer of the validator middleware to a body that fails the schema
ValidationError == [route |-> "POST /api/log", status |-> 400, json |-> [success |-> FALSE]]

\* the catch branch of POST /api/log
LogFailure ==
    [route |-> "POST /api/log", status |-> 500,
     json |-> [success |-> FALSE, message |-> "Failed to log action"]]

\* the framework's answer to an exception no handler catches
Uncaught(route) == [route |-> route, status |-> 500, text |-> <<"Internal Server Error">>]

NoViews == [guid |-> <<>>, data |-> <<>>]

\* the first and the latest body a view has shown since the last ingestion
RecordView(seen, body) == IF seen = <<>> THEN <<body>> ELSE <<seen[1], body>>

\* app.post('/api/log', zValidator('json', LogActionSchema), handler): server side.
\* The handler has no await, so it runs as one step.  With the bindings object
\* present (every env of Envs) no statement of its try block throws; the
\* Service Bus branch only writes to the console.  Without bindings,
\* requestCount++ has run when env.POD_NAME throws a TypeError, and the catch
\* branch answers 500.
PostLogHandler(p) ==
    IF ~LogActionSchema(p)
    THEN /\ response' = ValidationError
         /\ UNCHANGED <<serverVars, historyVars>>
    ELSE IF env = NoEnv
    THEN /\ requestCount' = Increment(requestCount)
         /\ response' = LogFailure
         /\ validatedPosts' = validatedPosts + 1
         /\ UNCHANGED <<POD_GUID, POD_START_TIME, podLogs, env,
                        arrivals, podGuidHistory, viewed, lastPosted>>
    ELSE LET count == Increment(requestCount)
             logEntry == FormatLogEntry(ToISOString(now), PodName, POD_GUID,
                                        p.action.val, p.details.val, count)
         IN  /\ requestCount' = count
             /\ podLogs' = PushCapped(podLogs, logEntry)
             /\ \E id \in UUIDs :
                    response' = [route |-> "POST /api/log", status |-> 200, json |-> LogAck(id)]
             /\ arrivals' = Append(arrivals, logEntry)
             /\ validatedPosts' = validatedPosts + 1
             /\ viewed' = NoViews
             /\ lastPosted' = <<p>>
             /\ UNCHANGED <<POD_GUID, POD_START_TIME, env, podGuidHistory>>

\* the header of the GUID report
GuidHeader ==
    <<"=== ClickBus Pod GUID Logs ===", LF, "Pod: ">> \o PodName
        \o <<LF, "GUID: ", POD_GUID, LF, "Started: ">> \o POD_START_TIME
        \o <<LF, "Total Requests Processed: ">> \o Digits(requestCount)
        \o <<LF, LF, "=== Recent Activity ===", LF>>

\* the header of the data report
DataHeader ==
    <<"=== ClickBus Data Activity Log ===", LF, "Pod Name: ">> \o PodName
        \o <<LF, "Pod GUID: ", POD_GUID, LF, "Uptime: ">> \o POD_START_TIME
        \o <<LF, "Requests Handled: ">> \o Digits(requestCount)
        \o <<LF, LF>>

GuidPlaceholder == <<"No activity logged yet on this pod.">>

DataPlaceholder ==
    <<"No user interactions logged yet on this pod.", LF, LF,
      "Note: In a 10-replica deployment, you'll see different pod GUIDs serving different requests, demonstrating load distribution.">>

\* GuidBody without the test for the empty list
GuidBodyNoPlaceholder(logs) == Join(logs, LF)

\* what the GUID report puts after its header
GuidBody(logs) ==
    IF Len(logs) = 0 THEN GuidPlaceholder ELSE Join(logs, LF)

\* what the data report puts after its header
DataBody(logs) ==
    IF Len(logs) = 0 THEN DataPlaceholder
    ELSE Join([i \in 1..Len(logs) |-> ReplacePipes(logs[i])], LF)

\* app.get('/api/logs/guid')
GetLogsGuid ==
    /\ IF env = NoEnv
       THEN /\ response' = [route |-> "GET /api/logs/guid", status |-> 500,
                            text |-> <<"Error reading GUID logs">>]
            /\ UNCHANGED viewed
       ELSE /\ response' = [route |-> "GET /api/logs/guid", status |-> 200,
                            text |-> GuidHeader \o GuidBody(podLogs)]
            /\ viewed' = [viewed EXCEPT !.guid = RecordView(@, GuidBody(podLogs))]
    /\ UNCHANGED <<serverVars, now, arrivals, validatedPosts, podGuidHistory, lastPosted, feVars>>

\* app.get('/api/logs/data')
GetLogsData ==
    /\ IF env = NoEnv
       THEN /\ response' = [route |-> "GET /api/logs/data", status |-> 500,
                            text |-> <<"Error reading data logs">>]
            /\ UNCHANGED viewed
       ELSE /\ response' = [route |-> "GET /api/logs/data", status |-> 200,
                            text |-> DataHeader \o DataBody(podLogs)]
            /\ viewed' = [viewed EXCEPT !.data = RecordView(@, DataBody(podLogs))]
    /\ UNCHANGED <<serverVars, now, arrivals, validatedPosts, podGuidHistory, lastPosted, feVars>>

\* Math.floor((Date.now() - new Date(POD_START_TIME).getTime()) / 1000)
UptimeSeconds == (now - GetTime(POD_START_TIME)) \div 1000

\* PodGuidJson answering with a GUID made for the request
PodGuidJsonFreshGuid(count) ==
    [podGuid |-> IF count % 2 = 0 THEN "uuid-1" ELSE "uuid-2", podName |-> PodName,
     startTime |-> POD_START_TIME, requestsHandled |-> count,
     timestamp |-> ToISOString(now),
     uptime |-> Digits(UptimeSeconds) \o <<" seconds">>]

\* the body of GET /api/pod-guid, count being the counter after its increment
PodGuidJson(count) ==
    [podGuid |-> POD_GUID, podName |-> PodName, startTime |-> POD_START_TIME,
     requestsHandled |-> count, timestamp |-> ToISOString(now),
     uptime |-> Digits(UptimeSeconds) \o <<" seconds">>]

\* app.get('/api/pod-guid'): server side.  It has no try: without bindings
\* the counter is incremented and building the body throws.
PodGuidHandler ==
    LET count == Increment(requestCount)
    IN  /\ requestCount' = count
        /\ IF env = NoEnv
           THEN /\ response' = Uncaught("GET /api/pod-guid")
                /\ UNCHANGED podGuidHistory
           ELSE /\ response' = [route |-> "GET /api/pod-guid", status |-> 200,
                                json |-> PodGuidJson(count)]
                /\ podGuidHistory' = Append(podGuidHistory, PodGuidJson(count))
        /\ UNCHANGED <<POD_GUID, POD_START_TIME, podLogs, env,
                       arrivals, validatedPosts, viewed, lastPosted>>

\* app.get('/api/pod-status')
GetPodStatus ==
    /\ response' =
         IF env = NoEnv THEN Uncaught("GET /api/pod-status") ELSE
         [route |-> "GET /api/pod-status", status |-> 200,
          json |-> [deployment |-> "ClickBus Backend", podName |-> PodName,
                    podGuid |-> POD_GUID,
                    namespace |-> OrDefault(env.POD_NAMESPACE, <<"clickbus">>),
                    podIP |-> OrDefault(env.POD_IP, <<"unknown">>),
                    startTime |-> POD_START_TIME, uptime |-> UptimeSeconds,
                    requestsProcessed |-> requestCount, logEntries |-> Len(podLogs),
                    timestamp |-> ToISOString(now)]]
    /\ UNCHANGED <<serverVars, now, historyVars, feVars>>

\* app.get('/api/health')
GetHealth ==
    /\ response' =
         IF env = NoEnv THEN Uncaught("GET /api/health") ELSE
         [route |-> "GET /api/health", status |-> 200,
          json |-> [status |-> "healthy", service |-> "ClickBus Backend",
                    timestamp |-> ToISOString(now), podName |-> PodName,
                    podGuid |-> POD_GUID, uptime |-> Digits(UptimeSeconds) \o <<"s">>,
                    requestsProcessed |-> requestCount, deploymentReady |-> TRUE]]
    /\ UNCHANGED <<serverVars, now, historyVars, feVars>>

\* GetRoot counting the request as GET /api/pod-guid does
GetRootCounting ==
    /\ requestCount' = requestCount + 1
    /\ response' =
         [route |-> "GET /", status |-> 200,
          json |-> [service |-> "ClickBus Backend API", version |-> "1.0.0",
                    podGuid |-> POD_GUID, podName |-> PodName,
                    startTime |-> POD_START_TIME, requestsHandled |-> requestCount + 1,
                    endpoints |-> <<"/api/log", "/api/logs/guid", "/api/logs/data",
                                    "/api/health", "/api/pod-guid", "/api/pod-status">>]]
    /\ UNCHANGED <<POD_GUID, POD_START_TIME, podLogs, env, now, historyVars, feVars>>

\* app.get('/')
GetRoot ==
    /\ response' =
         IF env = NoEnv THEN Uncaught("GET /") ELSE
         [route |-> "GET /", status |-> 200,
          json |-> [service |-> "ClickBus Backend API", version |-> "1.0.0",
                    podGuid |-> POD_GUID, podName |-> PodName,
                    startTime |-> POD_START_TIME, requestsHandled |-> requestCount,
                    endpoints |-> <<"/api/log", "/api/logs/guid", "/api/logs/data",
                                    "/api/health", "/api/pod-guid", "/api/pod-status">>]]
    /\ UNCHANGED <<serverVars, now, historyVars, feVars>>

\* POST /api/log from any client
PostLog(p) == PostLogHandler(p) /\ UNCHANGED <<now, feVars>>

\* GET /api/pod-guid from any client
GetPodGuid == PodGuidHandler /\ UNCHANGED <<now, feVars>>

\* the clock advances between requests
TickMs == 600
Tick ==
    /\ now < GetTime(POD_START_TIME) + MaxTicks * TickMs
    /\ now' = now + TickMs
    /\ UNCHANGED <<serverVars, response, historyVars, feVars>>

----------------------------------------------------------------------------
(* The frontend page, Home.tsx *)

\* tiles[].name
Tiles == {"Leaf", "Sky", "Ocean", "Lightning", "Mountain", "Stars"}

\* tile.facts.length
FactsPerTile == 3

\* the body logAction sends
LogActionBody(action, guid, details) ==
    [action |-> Str(action), guid |-> Str(guid), details |-> Str(details),
     timestamp |-> Str(ToISOString(now)), podName |-> Str(<<"frontend-pod">>)]

\* useEffect / fetchPodGuid: the GET /api/pod-guid is answered
FetchPodGuid ==
    /\ fePc = "mounting"
    /\ PodGuidHandler
    /\ podGuid' = <<response'.json.podGuid>>
    /\ podInfo' = <<response'.json>>
    /\ fePc' = "fetched"
    /\ UNCHANGED <<now, currentFacts>>

\* fetchPodGuid, catch branch: the backend is not reachable
FetchPodGuidFailed ==
    /\ fePc = "mounting"
    /\ \E fallbackGuid \in UUIDs : podGuid' = <<fallbackGuid>>
    /\ fePc' = "fallback"
    /\ UNCHANGED <<serverVars, now, response, historyVars, podInfo, currentFacts>>

\* the session_start line that fetchPodGuid logs once the GUID is known
LogSessionStart ==
    /\ fePc \in {"fetched", "fallback"}
    /\ PostLogHandler(
         LogActionBody(<<"session_start">>, podGuid,
                       IF fePc = "fetched"
                       THEN <<"Session started - Pod: ">> \o podInfo[1].podName
                       ELSE <<"Session started - Fallback mode">>))
    /\ fePc' = "ready"
    /\ UNCHANGED <<now, podGuid, podInfo, currentFacts>>

\* handleTileClick(tile)
HandleTileClick(tile) ==
    LET currentIndex == currentFacts[tile]
        nextIndex == (currentIndex + 1) % FactsPerTile
    IN  /\ currentFacts' = [currentFacts EXCEPT ![tile] = nextIndex]
        /\ PostLogHandler(
             LogActionBody(<<"tile_click">>, podGuid,
                           <<"Clicked ", tile, " tile - Fact ">> \o Digits(nextIndex + 1)))
        /\ UNCHANGED <<now, fePc, podGuid, podInfo>>

----------------------------------------------------------------------------
(* Specifications *)

\* instants at which the process can start
StartTimes == {250}

NoResponse == [route |-> "none", status |-> 0]

Init ==
    /\ POD_GUID \in UUIDs
    /\ now \in StartTimes
    /\ POD_START_TIME = ToISOString(now)
    /\ podLogs = <<>>
    /\ requestCount = 0
    /\ env \in Envs
    /\ response = NoResponse
    /\ arrivals = <<>>
    /\ validatedPosts = 0
    /\ podGuidHistory = <<>>
    /\ viewed = NoViews
    /\ lastPosted = <<>>
    /\ fePc = "mounting"
    /\ podGuid = <<>>
    /\ podInfo = <<>>
    /\ currentFacts = [t \in Tiles |-> 0]

\* The open environment: any client sends any request, a few times.
Next ==
    \/ \E p \in Payloads : requestCount < MaxRequests /\ PostLog(p)
    \/ requestCount < MaxRequests /\ GetPodGuid
    \/ GetLogsGuid
    \/ GetLogsData
    \/ GetPodStatus
    \/ GetHealth
    \/ GetRoot
    \/ Tick

Spec == Init /\ [][Next]_vars

\* the tile the burst keeps clicking
BurstTiles == {"Leaf"}

\* The burst: one page loads, then its user clicks a tile again and again
\* and opens the three report links.
NextBurst ==
    \/ FetchPodGuid
    \/ FetchPodGuidFailed
    \/ LogSessionStart
    \/ \E t \in BurstTiles :
          fePc = "ready" /\ requestCount < MaxBurstRequests /\ HandleTileClick(t)
    \/ GetLogsGuid
    \/ GetLogsData
    \/ GetPodStatus

SpecBurst == Init /\ [][NextBurst]_vars

\* the host hands the next request its bindings: app.fetch(request, env)
SetBindings(e) ==
    /\ env' = e
    /\ UNCHANGED <<POD_GUID, POD_START_TIME, podLogs, requestCount, now, response,
                   historyVars, feVars>>

\* The open environment on a host that may dispatch a request with or
\* without bindings.
NextFault ==
    \/ \E e \in Envs \cup {NoEnv} : SetBindings(e)
    \/ \E p \in Payloads : requestCount < MaxFaultRequests /\ PostLog(p)
    \/ requestCount < MaxFaultRequests /\ GetPodGuid
    \/ GetLogsGuid
    \/ GetLogsData
    \/ GetPodStatus
    \/ GetHealth
    \/ GetRoot

SpecFault == Init /\ [][NextFault]_vars

----------------------------------------------------------------------------
(* Vocabulary of the properties *)

GuidRoute == "GET /api/logs/guid"
DataRoute == "GET /api/logs/data"
LogRoute == "POST /api/log"
PodGuidRoute == "GET /api/pod-guid"

\* sub occurs in s as a contiguous run
Includes(s, sub) ==
    \E i \in 1..(Len(s) - Len(sub) + 1) : SubSeq(s, i, i + Len(sub) - 1) = sub

\* what follows the first n tokens of s
After(s, n) == SubSeq(s, n + 1, Len(s))

\* s starts with prefix
StartsWith(s, prefix) ==
    Len(s) >= Len(prefix) /\ SubSeq(s, 1, Len(prefix)) = prefix

\* index of the first line feed of s, 0 when there is none
FirstLF(s) ==
    IF \E i \in 1..Len(s) : s[i] = LF
    THEN CHOOSE i \in 1..Len(s) : s[i] = LF /\ \A j \in 1..(i - 1) : s[j] # LF
    ELSE 0

RECURSIVE SplitLines(_)
\* the lines of a text
SplitLines(s) ==
    IF FirstLF(s) = 0 THEN <<s>>
    ELSE <<SubSeq(s, 1, FirstLF(s) - 1)>> \o SplitLines(After(s, FirstLF(s)))

RECURSIVE TrailingDigits(_)
\* the run of digits that ends s
TrailingDigits(s) ==
    IF Len(s) = 0 \/ ~IsDigit(s[Len(s)]) THEN <<>>
    ELSE TrailingDigits(SubSeq(s, 1, Len(s) - 1)) \o <<s[Len(s)]>>

\* the Req# a log line ends with
ReqNoOf(logEntry) == ParseDigits(TrailingDigits(logEntry))

\* the last min(N, 100) lines ingested, oldest first
RecentArrivals ==
    LET n == Min(Len(arrivals), MaxLogs)
    IN  [i \in 1..n |-> arrivals[Len(arrivals) - n + i]]

----------------------------------------------------------------------------
(* C1 - the log list never holds more than 100 lines *)

\* C1: in every reachable state, whatever requests were served, podLogs
\* holds at most 100 entries.
C1_BufferBounded == Len(podLogs) <= MaxLogs

\* more than 100 lines were ingested and the list is full
C1_Witness == Len(arrivals) > MaxLogs /\ Len(podLogs) = MaxLogs

----------------------------------------------------------------------------
(* C2 - the views show the most recent lines in arrival order *)

\* C2: after N accepted ingestions podLogs is the last min(N, 100) ingested
\* lines, oldest first, and each text view returns its header followed by
\* exactly those lines (the data view with its pipes rewritten), joined by
\* line feeds.
C2_MostRecentInOrder ==
    /\ podLogs = RecentArrivals
    /\ (response.route = GuidRoute /\ arrivals # <<>>)
          => response.text = GuidHeader \o Join(RecentArrivals, LF)
    /\ (response.route = DataRoute /\ arrivals # <<>>)
          => response.text =
               DataHeader \o Join([i \in 1..Len(RecentArrivals) |->
                                      ReplacePipes(RecentArrivals[i])], LF)

\* a view is served after more than 100 ingestions
C2_Witness ==
    /\ response.route \in {GuidRoute, DataRoute}
    /\ Len(arrivals) > MaxLogs + 1

----------------------------------------------------------------------------
(* C3 - a body that fails validation changes nothing *)

\* a required member is missing or is not a string
RequiredFieldBad(p) == \E f \in RequiredFields : p[f].kind # "string"

\* C3: a POST /api/log whose body lacks, or mistypes, one of action, guid,
\* details, timestamp is answered with a client error and leaves podLogs
\* and requestCount as they were.
C3_InvalidRejected ==
    [][\A p \in Payloads :
          (RequiredFieldBad(p) /\ PostLog(p)) =>
             /\ response'.status = 400
             /\ podLogs' = podLogs
             /\ requestCount' = requestCount]_vars

\* a malformed body was rejected while the list held lines
C3_Witness ==
    /\ response.route = LogRoute
    /\ response.status = 400
    /\ Len(podLogs) > 0
    /\ requestCount > 0

----------------------------------------------------------------------------
(* C4 - an accepted line is acknowledged and shows in the GUID report *)

\* C4: an accepted POST /api/log is acknowledged with success and a
\* non-empty logId, and a following GET /api/logs/guid contains a line that
\* includes "Action: a" and "Details: d" for the action a and details d of
\* the latest accepted body.
C4_PostedLineShown ==
    /\ (response.route = LogRoute /\ response.status = 200)
          => (response.json.success /\ response.json.logId # "")
    /\ (response.route = GuidRoute /\ lastPosted # <<>>)
          => LET lines == SplitLines(response.text)
                 a == lastPosted[1].action.val
                 d == lastPosted[1].details.val
             IN  \E k \in 1..Len(lines) :
                    /\ Includes(lines[k], <<"Action: ">> \o a)
                    /\ Includes(lines[k], <<"Details: ">> \o d)

----------------------------------------------------------------------------
(* C5 - one identity for the life of the process *)

\* C5: no step changes POD_GUID or POD_START_TIME; every GUID report and
\* data report names POD_GUID in its header, and every line of podLogs
\* embeds POD_GUID.
C5_IdentityStable ==
    /\ [][POD_GUID' = POD_GUID /\ POD_START_TIME' = POD_START_TIME]_vars
    /\ [](/\ response.route = GuidRoute
                => Includes(response.text, <<LF, "GUID: ", POD_GUID, LF>>)
          /\ response.route = DataRoute
                => Includes(response.text, <<LF, "Pod GUID: ", POD_GUID, LF>>)
          /\ \A i \in 1..Len(podLogs) :
                Includes(podLogs[i], <<"GUID: ", POD_GUID, " ", PIPE>>))

\* a report is served while the list holds several lines
C5_Witness ==
    /\ response.route \in {GuidRoute, DataRoute}
    /\ Len(podLogs) >= 2

----------------------------------------------------------------------------
(* C6 - /api/pod-guid: same GUID, counter never decreasing *)

\* C6: any two answers of GET /api/pod-guid carry the same podGuid and the
\* later one's requestsHandled is not less than the earlier one's; no step
\* decreases requestCount.
C6_PodGuidStable ==
    /\ [](\A i, j \in 1..Len(podGuidHistory) :
             i < j => /\ podGuidHistory[i].podGuid = podGuidHistory[j].podGuid
                      /\ podGuidHistory[i].requestsHandled
                            <= podGuidHistory[j].requestsHandled)
    /\ [][requestCount' >= requestCount]_vars

\* two calls of /api/pod-guid with an ingestion between them
C6_Witness ==
    /\ Len(podGuidHistory) >= 2
    /\ podGuidHistory[2].requestsHandled > podGuidHistory[1].requestsHandled + 1

----------------------------------------------------------------------------
(* C7 - the placeholder is shown exactly when the list is empty *)

\* C7: each text view answers with its header followed by a non-empty body;
\* the body is the view's placeholder if and only if nothing was ingested.
C7_PlaceholderIffEmpty ==
    /\ response.route = GuidRoute
          => /\ StartsWith(response.text, GuidHeader)
             /\ After(response.text, Len(GuidHeader)) # <<>>
             /\ (After(response.text, Len(GuidHeader)) = GuidPlaceholder)
                   <=> (Len(podLogs) = 0 /\ arrivals = <<>>)
    /\ response.route = DataRoute
          => /\ StartsWith(response.text, DataHeader)
             /\ After(response.text, Len(DataHeader)) # <<>>
             /\ (After(response.text, Len(DataHeader)) = DataPlaceholder)
                   <=> (Len(podLogs) = 0 /\ arrivals = <<>>)

\* a view is served on an empty list after the counter has moved
C7_Witness ==
    /\ response.route \in {GuidRoute, DataRoute}
    /\ Len(podLogs) = 0
    /\ requestCount > 0

----------------------------------------------------------------------------
(* C8 - what the counter counts *)

\* C8: requestCount starts at 0 and always equals the number of POST
\* /api/log that passed validation plus the number of GET /api/pod-guid
\* served; a step that changes it adds exactly one.
C8_CounterCounts ==
    /\ requestCount = 0
    /\ [](requestCount = validatedPosts + Len(podGuidHistory))
    /\ [][requestCount' # requestCount =>
             /\ requestCount' = requestCount + 1
             /\ response'.route \in {LogRoute, PodGuidRoute}
             /\ response'.status = 200]_vars

\* both kinds of counted request were served, and a rejected POST after them
C8_Witness ==
    /\ validatedPosts > 0
    /\ Len(podGuidHistory) > 0
    /\ response = ValidationError

----------------------------------------------------------------------------
(* C9 - Req# is the counter after the increment *)

\* C9: the Req# values of the lines of podLogs strictly increase from
\* oldest to newest (hence are pairwise distinct), the newest is at most
\* requestCount, and right after an accepted POST it equals requestCount.
C9_ReqNumbersIncrease ==
    /\ \A i, j \in 1..Len(podLogs) :
          i < j => ReqNoOf(podLogs[i]) < ReqNoOf(podLogs[j])
    /\ Len(podLogs) > 0 => ReqNoOf(podLogs[Len(podLogs)]) <= requestCount
    /\ (response.route = LogRoute /\ response.status = 200)
          => ReqNoOf(podLogs[Len(podLogs)]) = requestCount

\* two lines whose Req# are not consecutive
C9_Witness ==
    /\ Len(podLogs) >= 2
    /\ ReqNoOf(podLogs[2]) > ReqNoOf(podLogs[1]) + 1

----------------------------------------------------------------------------
(* C10 - who writes the list and the counter *)

\* C10: a step that answers a report, /api/pod-status, /api/health or /
\* leaves podLogs and requestCount unchanged, one that answers
\* /api/pod-guid leaves podLogs unchanged, and two
\* calls of the same report with no ingestion between them show the same
\* entries.
ReaderRoutes == {GuidRoute, DataRoute, "GET /api/pod-status", "GET /api/health", "GET /"}

C10_ReadersDoNotWrite ==
    /\ [][response'.route \in ReaderRoutes
             => (podLogs' = podLogs /\ requestCount' = requestCount)]_vars
    /\ [][response'.route = PodGuidRoute => podLogs' = podLogs]_vars
    /\ [](/\ Len(viewed.guid) = 2 => viewed.guid[1] = viewed.guid[2]
          /\ Len(viewed.data) = 2 => viewed.data[1] = viewed.data[2])

\* a report shown twice since the last ingestion, with a counted request since
C10_Witness ==
    /\ Len(viewed.guid) = 2
    /\ Len(podLogs) > 0
    /\ requestCount > ReqNoOf(podLogs[Len(podLogs)])

----------------------------------------------------------------------------
(* C11 - a failed ingestion leaves no trace *)

\* C11: a step in which POST /api/log ends in its catch branch (status 500,
\* success false) leaves podLogs and requestCount as they were before the
\* request.
C11_FailureInvisible ==
    [][(response'.route = LogRoute /\ response'.status = 500)
          => (podLogs' = podLogs /\ requestCount' = requestCount)]_vars

====
